---- MODULE Spec2Model ----
(***************************************************************************)
(* docs/lebanese deal/analyze_cards.py: the background run-length scan of  *)
(* find_card_rows and the module-level driver loop over the four card      *)
(* categories.  Positions y and x are 0-based as in the source; sequences  *)
(* are 1-based, so row y of an array is element y + 1.                     *)
(***************************************************************************)
EXTENDS Integers, Sequences, FiniteSets, TLC

VARIABLES
    files,            \* the image files under /tmp: path -> image or missing
    pc,               \* position in the script
    error,            \* the exception that ended the run ("" while running)
    idx,              \* position of the driver's for loop in the category list
    name,             \* driver loop variable / find_card_rows argument
    path,             \* find_card_rows argument
    totals,           \* totals dict: name -> rows * cols
    ret,              \* value returned by the last find_card_rows call
    w, h,             \* img.size
    bg_color,         \* arr[0, 0, :3]
    row_whiteness,    \* list of matches / w, kept as <<matches, w>>
    card_row_starts,
    card_row_ends,
    prev_is_bg,
    y,                \* next index of the row loops
    col_whiteness,    \* list of matches / h, kept as <<matches, h>>
    col_starts,
    prev_bg,
    x,                \* next index of the column loops
    stdout,           \* the printed lines
    calls,            \* names find_card_rows was called with, in order
    frames            \* locals of every find_card_rows call at its return

vars == <<files, pc, error, idx, name, path, totals, ret, w, h, bg_color,
          row_whiteness, card_row_starts, card_row_ends, prev_is_bg, y,
          col_whiteness, col_starts, prev_bg, x, stdout, calls, frames>>

----------------------------------------------------------------------------
(* Program constants *)

Categories == <<"action", "money", "property", "wild">>

PathOf == [action   |-> "/tmp/action_cards.png",
           money    |-> "/tmp/money_cards.png",
           property |-> "/tmp/property_cards.png",
           wild     |-> "/tmp/wild_cards.png"]

Upper == [action |-> "ACTION", money |-> "MONEY",
          property |-> "PROPERTY", wild |-> "WILD"]

Paths == {PathOf[Categories[i]] : i \in 1..Len(Categories)}

\* the literal 0.80, as the fraction ThresholdNum / ThresholdDen
ThresholdNum == 80
ThresholdDen == 100

ColsShown == 10

----------------------------------------------------------------------------
(* Images *)

Missing == [kind |-> "missing"]

White     == <<255, 255, 255, 255>>
Red       == <<255, 0, 0, 255>>
Clear     == <<255, 255, 255, 0>>
WhiteRGB  == <<255, 255, 255>>
RedRGB    == <<255, 0, 0>>

\* Image.convert("RGBA") on one pixel: an RGB pixel gains an opaque alpha
ConvertRGBA(p) == IF Len(p) = 3 THEN Append(p, 255) ELSE p

\* a card sheet is stored by its layout: bgpx everywhere but in the rectangles
InRect(r, yy, xx) == r.x0 <= xx /\ xx < r.x1 /\ r.y0 <= yy /\ yy < r.y1

\* np.array(img)[yy, xx] after the conversion
Px(img, yy, xx) ==
    IF img.kind = "raster"
    THEN ConvertRGBA(img.px[yy + 1][xx + 1])
    ELSE IF \E r \in img.rects : InRect(r, yy, xx)
         THEN ConvertRGBA(img.fgpx)
         ELSE ConvertRGBA(img.bgpx)

RGB(p) == <<p[1], p[2], p[3]>>

arr == files[path]

----------------------------------------------------------------------------
(* Helpers of find_card_rows *)

\* faulty variant: np.any in place of np.all
PixelMatchesAny(p, bg) == \E c \in 1..3 : p[c] = bg[c]

\* np.all(row == bg_color, axis=1) for one pixel: all of R, G, B equal
PixelMatches(p, bg) == \A c \in 1..3 : p[c] = bg[c]

\* np.all(arr[yy, :, :3] == bg_color, axis=1).sum()
RowMatches(img, yy, bg) ==
    Cardinality({xx \in 0..(img.w - 1) : PixelMatches(Px(img, yy, xx), bg)})

\* np.all(arr[:, xx, :3] == bg_color, axis=1).sum()
ColMatches(img, xx, bg) ==
    Cardinality({yy \in 0..(img.h - 1) : PixelMatches(Px(img, yy, xx), bg)})

\* faulty variant: the row count divided by the height
RowDenominatorSwapped == h

\* matches / w
RowDenominator == w

\* matches / h
ColDenominator == h

\* faulty variant: ws >= 0.80
IsBgAtLeast(f) == f[1] * ThresholdDen >= ThresholdNum * f[2]

\* ws > 0.80 for ws = f[1] / f[2].  The double nearest 4/5 is the literal
\* 0.80 itself and division rounds monotonically, so for sizes below 2^50
\* the comparison of doubles is the comparison of the fractions.  A zero
\* denominator gives nan or inf from 0 / 0 or m / 0; it is never reached.
IsBg(f) == f[1] * ThresholdDen > ThresholdNum * f[2]

\* faulty variant: a start at every foreground row
OpensRunAnyFg(prev, isbg) == ~isbg

\* prev_is_bg and not is_bg
OpensRun(prev, isbg) == prev /\ ~isbg

\* faulty variant: an end at every background row
ClosesRunAnyBg(prev, isbg) == isbg

\* not prev_is_bg and is_bg
ClosesRun(prev, isbg) == ~prev /\ isbg

\* faulty variant: the list of the previous call is kept
InitRowStartsStale == card_row_starts

\* faulty variant: the scan starts in foreground
InitPrevIsBgFalse == FALSE

InitRowStarts == <<>>
InitRowEnds == <<>>
InitPrevIsBg == TRUE
InitColStarts == <<>>
InitPrevBg == TRUE

\* faulty variant: only an array with no row raises
SampleFailsNoRow(img) == img.h = 0

\* arr[0, 0, :3] raises IndexError on an array with no row or no column
SampleFails(img) == img.h = 0 \/ img.w = 0

BgSample(img) == IF img.h > 0 /\ img.w > 0 THEN RGB(Px(img, 0, 0)) ELSE <<>>

Min(a, b) == IF a < b THEN a ELSE b

Take(s, n) == SubSeq(s, 1, Min(n, Len(s)))

\* zip(a, b): pairs up to the shorter length
Zip(a, b) == [i \in 1..Min(Len(a), Len(b)) |-> <<a[i], b[i]>>]

\* faulty variant: the height counts the end row too
SpanHeightInclusive(s, e) == e - s + 1

SpanHeight(s, e) == e - s

\* where the unclosed last row is reported to end
UnclosedEnd == h

RowLines ==
    LET z == Zip(card_row_starts, Take(card_row_ends, Len(card_row_starts)))
    IN  [i \in 1..Len(z) |->
            [k |-> "row", i |-> i, s |-> z[i][1], e |-> z[i][2],
             hgt |-> SpanHeight(z[i][1], z[i][2])]]

UnclosedLines ==
    IF Len(card_row_ends) < Len(card_row_starts)
    THEN << [k |-> "unclosed", i |-> Len(card_row_starts),
             s |-> card_row_starts[Len(card_row_starts)], e |-> UnclosedEnd] >>
    ELSE << >>

ReportLines ==
    << [k |-> "header", name |-> Upper[name]],
       [k |-> "image", w |-> w, h |-> h, bg |-> bg_color],
       [k |-> "rows", n |-> Len(card_row_starts)] >>
    \o RowLines \o UnclosedLines \o
    << [k |-> "cols", n |-> Len(col_starts), first |-> Take(col_starts, ColsShown)] >>

\* faulty variant: the sum in place of the product
TotalSum(rows, cols) == rows + cols

Total(rows, cols) == rows * cols

----------------------------------------------------------------------------
(* Actions *)

DriverVars == <<idx, name, totals>>
RowVars == <<row_whiteness, card_row_starts, card_row_ends, prev_is_bg, y>>
ColVars == <<col_whiteness, col_starts, prev_bg, x>>
LogVars == <<stdout, calls, frames>>

\* line 56-57: next name of the for loop, call find_card_rows
ForNext ==
    /\ pc = "for"
    /\ IF idx <= Len(Categories)
       THEN /\ name' = Categories[idx]
            /\ path' = PathOf[Categories[idx]]
            /\ calls' = Append(calls, Categories[idx])
            /\ pc' = "open"
       ELSE /\ pc' = "done"
            /\ UNCHANGED <<name, path, calls>>
    /\ UNCHANGED <<files, error, idx, totals, ret, w, h, bg_color, RowVars,
                   ColVars, stdout, frames>>

\* whether Image.open / convert / np.array can succeed on a file: a missing
\* file raises; a file with an empty dimension is rejected by some decoders
OpenOutcomes(f) ==
    IF f.kind = "missing" THEN {FALSE}
    ELSE IF f.w = 0 \/ f.h = 0 THEN {TRUE, FALSE}
    ELSE {TRUE}

\* lines 5-7
Open ==
    /\ pc = "open"
    /\ \E ok \in OpenOutcomes(files[path]) :
          IF ok
          THEN /\ w' = files[path].w
               /\ h' = files[path].h
               /\ pc' = "sample"
               /\ UNCHANGED error
          ELSE /\ pc' = "crashed"
               /\ error' = "OSError"
               /\ UNCHANGED <<w, h>>
    /\ UNCHANGED <<files, DriverVars, path, ret, bg_color, RowVars, ColVars, LogVars>>

\* lines 10-12
SampleBg ==
    /\ pc = "sample"
    /\ IF SampleFails(arr)
       THEN /\ pc' = "crashed"
            /\ error' = "IndexError"
            /\ UNCHANGED <<bg_color, row_whiteness, y>>
       ELSE /\ bg_color' = BgSample(arr)
            /\ row_whiteness' = <<>>
            /\ y' = 0
            /\ pc' = "roww"
            /\ UNCHANGED error
    /\ UNCHANGED <<files, DriverVars, path, ret, w, h, card_row_starts,
                   card_row_ends, prev_is_bg, ColVars, LogVars>>

\* lines 13-16, one iteration
RowWhitenessStep ==
    /\ pc = "roww"
    /\ y < h
    /\ row_whiteness' = Append(row_whiteness, <<RowMatches(arr, y, bg_color), RowDenominator>>)
    /\ y' = y + 1
    /\ UNCHANGED <<files, pc, error, DriverVars, path, ret, w, h, bg_color,
                   card_row_starts, card_row_ends, prev_is_bg, ColVars, LogVars>>

\* lines 18-20
RowScanInit ==
    /\ pc = "roww"
    /\ y >= h
    /\ card_row_starts' = InitRowStarts
    /\ card_row_ends' = InitRowEnds
    /\ prev_is_bg' = InitPrevIsBg
    /\ y' = 0
    /\ pc' = "rowscan"
    /\ UNCHANGED <<files, error, DriverVars, path, ret, w, h, bg_color,
                   row_whiteness, ColVars, LogVars>>

\* lines 21-27, one iteration
RowScanStep ==
    /\ pc = "rowscan"
    /\ y < Len(row_whiteness)
    /\ LET is_bg == IsBg(row_whiteness[y + 1])
           s1 == IF OpensRun(prev_is_bg, is_bg)
                 THEN Append(card_row_starts, y) ELSE card_row_starts
           e1 == IF ClosesRun(prev_is_bg, is_bg)
                 THEN Append(card_row_ends, y) ELSE card_row_ends
       IN  /\ card_row_starts' = s1
           /\ card_row_ends' = e1
           /\ prev_is_bg' = is_bg
    /\ y' = y + 1
    /\ UNCHANGED <<files, pc, error, DriverVars, path, ret, w, h, bg_color,
                   row_whiteness, ColVars, LogVars>>

\* line 31
ColWhitenessInit ==
    /\ pc = "rowscan"
    /\ y >= Len(row_whiteness)
    /\ col_whiteness' = <<>>
    /\ x' = 0
    /\ pc' = "colw"
    /\ UNCHANGED <<files, error, DriverVars, path, ret, w, h, bg_color,
                   RowVars, col_starts, prev_bg, LogVars>>

\* lines 32-35, one iteration
ColWhitenessStep ==
    /\ pc = "colw"
    /\ x < w
    /\ col_whiteness' = Append(col_whiteness, <<ColMatches(arr, x, bg_color), ColDenominator>>)
    /\ x' = x + 1
    /\ UNCHANGED <<files, pc, error, DriverVars, path, ret, w, h, bg_color,
                   RowVars, col_starts, prev_bg, LogVars>>

\* lines 37-38
ColScanInit ==
    /\ pc = "colw"
    /\ x >= w
    /\ col_starts' = InitColStarts
    /\ prev_bg' = InitPrevBg
    /\ x' = 0
    /\ pc' = "colscan"
    /\ UNCHANGED <<files, error, DriverVars, path, ret, w, h, bg_color,
                   RowVars, col_whiteness, LogVars>>

\* lines 39-43, one iteration
ColScanStep ==
    /\ pc = "colscan"
    /\ x < Len(col_whiteness)
    /\ LET is_bg == IsBg(col_whiteness[x + 1])
       IN  /\ col_starts' = IF OpensRun(prev_bg, is_bg)
                            THEN Append(col_starts, x) ELSE col_starts
           /\ prev_bg' = is_bg
    /\ x' = x + 1
    /\ UNCHANGED <<files, pc, error, DriverVars, path, ret, w, h, bg_color,
                   RowVars, col_whiteness, LogVars>>

\* lines 45-53: the report and the return
Report ==
    /\ pc = "colscan"
    /\ x >= Len(col_whiteness)
    /\ stdout' = stdout \o ReportLines
    /\ ret' = <<Len(card_row_starts), Len(col_starts)>>
    /\ frames' = Append(frames,
                        [name |-> name, image |-> arr,
                         card_row_starts |-> card_row_starts,
                         card_row_ends |-> card_row_ends,
                         col_starts |-> col_starts,
                         ret |-> <<Len(card_row_starts), Len(col_starts)>>])
    /\ pc' = "store"
    /\ UNCHANGED <<files, error, DriverVars, path, w, h, bg_color, RowVars,
                   ColVars, calls>>

\* lines 57-59: rows, cols = ...; totals[name] = rows * cols; print
Store ==
    /\ pc = "store"
    /\ LET rows == ret[1]
           cols == ret[2]
       IN  /\ totals' = [n \in DOMAIN totals \cup {name} |->
                            IF n = name THEN Total(rows, cols) ELSE totals[n]]
           /\ stdout' = Append(stdout,
                               [k |-> "total", name |-> name, rows |-> rows,
                                cols |-> cols, cards |-> rows * cols])
    /\ idx' = idx + 1
    /\ pc' = "for"
    /\ UNCHANGED <<files, error, name, path, ret, w, h, bg_color, RowVars,
                   ColVars, calls, frames>>

Next ==
    \/ ForNext
    \/ Open
    \/ SampleBg
    \/ RowWhitenessStep
    \/ RowScanInit
    \/ RowScanStep
    \/ ColWhitenessInit
    \/ ColWhitenessStep
    \/ ColScanInit
    \/ ColScanStep
    \/ Report
    \/ Store

----------------------------------------------------------------------------
(* Initial states: the script starts at line 55 with some files on disk *)

\* line 55, with every local of find_card_rows still unbound
Start(f) ==
    /\ files = f
    /\ pc = "for"
    /\ error = ""
    /\ idx = 1
    /\ name = ""
    /\ path = ""
    /\ totals = <<>>
    /\ ret = <<>>
    /\ w = 0 /\ h = 0
    /\ bg_color = <<>>
    /\ row_whiteness = <<>>
    /\ card_row_starts = <<>>
    /\ card_row_ends = <<>>
    /\ prev_is_bg = TRUE
    /\ y = 0
    /\ col_whiteness = <<>>
    /\ col_starts = <<>>
    /\ prev_bg = TRUE
    /\ x = 0
    /\ stdout = <<>>
    /\ calls = <<>>
    /\ frames = <<>>

----------------------------------------------------------------------------
(* Input images *)

Raster(mode, ww, hh, p) ==
    [kind |-> "raster", mode |-> mode, w |-> ww, h |-> hh, px |-> p]

RastersOf(mode, palette, ww, hh) ==
    {Raster(mode, ww, hh, p) : p \in [1..hh -> [1..ww -> palette]]}

MaxPixels == 6

Shapes == {s \in (1..MaxPixels) \X (1..MaxPixels) : s[1] * s[2] <= MaxPixels}

\* every RGBA image over three pixel values and every RGB image over two,
\* of at most MaxPixels pixels
SmallImages ==
    UNION {RastersOf("RGBA", {White, Red, Clear}, s[1], s[2]) : s \in Shapes}
    \cup UNION {RastersOf("RGB", {WhiteRGB, RedRGB}, s[1], s[2]) : s \in Shapes}

MaxEmptyDim == 2

\* images with no row or no column
EmptyImages ==
    {Raster("RGBA", d[1], d[2], [r \in 1..d[2] |-> <<>>]) :
        d \in {e \in (0..MaxEmptyDim) \X (0..MaxEmptyDim) : e[1] = 0 \/ e[2] = 0}}

\* only /tmp/action_cards.png exists
OnlyAction(img) == [p \in Paths |-> IF p = PathOf["action"] THEN img ELSE Missing]

Init == \E img \in SmallImages \cup EmptyImages : Start(OnlyAction(img))

Spec == Init /\ [][Next]_vars

(* K bands of height B, background first; pixels cycle through a pattern *)
MaxBands == 5
MaxBandHeight == 3
BandWidths == {1, 2, 3}

Black == <<0, 0, 0, 255>>

BandPatterns ==
    { <<bp, fp>> \in
        { <<White>>, <<White, Clear>>, <<Red>> } \X
        { <<Red>>, <<Black>>, <<Red, Black>>, <<White>>, <<Clear, White>> } :
        \A i \in DOMAIN bp, j \in DOMAIN fp : RGB(bp[i]) # RGB(fp[j]) }

BandImage(K, B, ww, bp, fp) ==
    Raster("RGBA", ww, K * B,
           [r \in 1..(K * B) |-> [c \in 1..ww |->
               LET pat == IF ((r - 1) \div B) % 2 = 0 THEN bp ELSE fp
               IN  pat[((r + c) % Len(pat)) + 1]]])

BandImages ==
    {BandImage(K, B, ww, pp[1], pp[2]) :
        K \in 1..MaxBands, B \in 1..MaxBandHeight, ww \in BandWidths,
        pp \in BandPatterns}

InitBands == \E img \in BandImages : Start(OnlyAction(img))

SpecBands == InitBands /\ [][Next]_vars

(* the 400x300 sheet: two bands of three cards of width cw, gap g, margin m *)
BlackRGB == <<0, 0, 0>>

E2EBands == {[y0 |-> 10, y1 |-> 140], [y0 |-> 160, y1 |-> 290]}

E2ERects(cw, g, m) ==
    {[x0 |-> m + i * (cw + g), x1 |-> m + i * (cw + g) + cw,
      y0 |-> b.y0, y1 |-> b.y1] : i \in 0..2, b \in E2EBands}

E2ESheet(cw, g, m, fg) ==
    [kind |-> "sheet", mode |-> "RGB", w |-> 400, h |-> 300,
     bgpx |-> WhiteRGB, fgpx |-> fg, rects |-> E2ERects(cw, g, m)]

E2ELayouts ==
    {l \in {20, 26, 27, 132} \X {1, 50} \X {0, 30} :
        l[3] + 3 * l[1] + 2 * l[2] <= 400}

E2ESheets ==
    {E2ESheet(l[1], l[2], l[3], fg) : l \in E2ELayouts, fg \in {RedRGB, BlackRGB}}

InitE2E == \E img \in E2ESheets : Start(OnlyAction(img))

SpecE2E == InitE2E /\ [][Next]_vars

(* the driver over four files, each missing, empty or one of three images *)
DriverImages ==
    { Raster("RGB", 1, 1, << <<WhiteRGB>> >>),
      Raster("RGB", 2, 1, << <<WhiteRGB, RedRGB>> >>),
      Raster("RGBA", 2, 3, << <<White, Red>>, <<White, Clear>>, <<Red, Red>> >>) }

DriverFiles == DriverImages \cup {Missing, Raster("RGBA", 0, 0, <<>>)}

InitDriver == \E f \in [Paths -> DriverFiles] : Start(f)

SpecDriver == InitDriver /\ [][Next]_vars

----------------------------------------------------------------------------
(* What the scan is meant to compute, stated on the image alone *)

Corner(img) == RGB(Px(img, 0, 0))

\* pixels of row yy / column xx with the R, G, B of pixel (0, 0)
SameAsCornerInRow(img, yy) ==
    {xx \in 0..(img.w - 1) : RGB(Px(img, yy, xx)) = Corner(img)}

SameAsCornerInCol(img, xx) ==
    {yy \in 0..(img.h - 1) : RGB(Px(img, yy, xx)) = Corner(img)}

\* background: strictly more than 80% of the pixels match
RowIsBackground(img, yy) == 5 * Cardinality(SameAsCornerInRow(img, yy)) > 4 * img.w

ColIsBackground(img, xx) == 5 * Cardinality(SameAsCornerInCol(img, xx)) > 4 * img.h

ForegroundRows(img) == {yy \in 0..(img.h - 1) : ~RowIsBackground(img, yy)}

ForegroundCols(img) == {xx \in 0..(img.w - 1) : ~ColIsBackground(img, xx)}

\* the maximal contiguous runs a..b of a set of positions
MaximalRuns(S) ==
    {r \in S \X S :
        /\ r[1] <= r[2]
        /\ \A k \in r[1]..r[2] : k \in S
        /\ (r[1] - 1) \notin S
        /\ (r[2] + 1) \notin S}

NonEmptyImage(img) == img.kind # "missing" /\ img.w >= 1 /\ img.h >= 1

\* the lines of the report printed last
LastReport ==
    LET hs == {i \in 1..Len(stdout) : stdout[i].k = "header"}
        s0 == CHOOSE i \in hs : \A j \in hs : j <= i
    IN  SubSeq(stdout, s0, Len(stdout))

LinesOf(kind) == {i \in 1..Len(LastReport) : LastReport[i].k = kind}

\* the spans of the last report, closed and unclosed, as <<start, end>>
ReportedSpans ==
    {<<LastReport[i].s, LastReport[i].e>> : i \in LinesOf("row") \cup LinesOf("unclosed")}

----------------------------------------------------------------------------
(* Claims *)

\* C1: for every image with W >= 1 and H >= 1 the returned pair is (number of
\* maximal runs of foreground rows, number of maximal runs of foreground
\* columns), a row or column being background iff strictly more than 80% of
\* its pixels match bg_color.
C1_ReturnsRunCounts ==
    (pc = "store" /\ NonEmptyImage(arr)) =>
        ret = << Cardinality(MaximalRuns(ForegroundRows(arr))),
                 Cardinality(MaximalRuns(ForegroundCols(arr))) >>

\* a 5-wide row with exactly 4 matching pixels was counted as a row run
C1_Witness ==
    /\ pc = "store"
    /\ w = 5
    /\ Cardinality(SameAsCornerInRow(arr, 0)) = 4
    /\ ret = <<1, 1>>

\* C2: during and after the row scan the lengths of card_row_starts and
\* card_row_ends differ by at most 1, card_row_starts is never shorter, and it
\* is longer by 1 exactly when the row scanned last is foreground.
C2_StartsEndsLengths ==
    pc \in {"rowscan", "colw", "colscan", "store"} =>
        LET d == Len(card_row_starts) - Len(card_row_ends)
        IN  /\ d \in {0, 1}
            /\ (d = 1) <=> (y > 0 /\ ~RowIsBackground(arr, y - 1))
            /\ (pc # "rowscan") => y = h

\* the scan ended inside a run after having closed another one
C2_Witness ==
    /\ pc = "rowscan"
    /\ y = h
    /\ Len(card_row_ends) >= 1
    /\ Len(card_row_starts) = Len(card_row_ends) + 1

OnlyCornerMatches(img) ==
    /\ NonEmptyImage(img)
    /\ \A yy \in 0..(img.h - 1) : \A xx \in 0..(img.w - 1) :
          (RGB(Px(img, yy, xx)) = Corner(img)) => (yy = 0 /\ xx = 0)

OneUnclosedRunOverAll ==
    /\ card_row_starts = <<0>>
    /\ card_row_ends = <<>>
    /\ ReportedSpans = {<<0, h>>}
    /\ LinesOf("row") = {}

\* C3 as stated: for every image with W >= 1 and H >= 1 in which only pixel
\* (0,0) has the colour of pixel (0,0), there is exactly one row run, unclosed,
\* reported as y=0 to H.
C3_AsStated ==
    (pc = "store" /\ OnlyCornerMatches(arr)) => OneUnclosedRunOverAll

\* C3 amended: the same for every such image with W >= 2.
C3_Amended ==
    (pc = "store" /\ OnlyCornerMatches(arr) /\ w >= 2) => OneUnclosedRunOverAll

C3_Witness ==
    /\ pc = "store"
    /\ OnlyCornerMatches(arr)
    /\ w >= 2
    /\ h >= 2

CardWidth(img) == CHOOSE n \in {r.x1 - r.x0 : r \in img.rects} : TRUE

E2EReport ==
    /\ ret = <<2, 3>>
    /\ ReportedSpans = {<<10, 140>>, <<160, 290>>}
    /\ LinesOf("unclosed") = {}

\* C4 as stated: on the 400x300 sheet with bands y=[10,140) and y=[160,290) of
\* three cards each, for every card width and gap width, the row run count is 2
\* with spans (10,140) and (160,290) and the column run count is 3.
C4_AsStated == (pc = "store") => E2EReport

\* C4 amended: the same for every card width of at least 27 pixels (3 cards
\* cover at least 20% of the 400 pixels of a band row).
C4_Amended == (pc = "store" /\ CardWidth(arr) >= 27) => E2EReport

C4_Witness ==
    /\ pc = "store"
    /\ CardWidth(arr) = 27
    /\ ret = <<2, 3>>

\* img is K bands of height B, background first: rows of even bands are all of
\* the corner colour, rows of odd bands have no pixel of it
IsBandImage(img, K, B) ==
    /\ NonEmptyImage(img)
    /\ img.h = K * B
    /\ \A yy \in 0..(img.h - 1) :
          IF (yy \div B) % 2 = 0
          THEN SameAsCornerInRow(img, yy) = 0..(img.w - 1)
          ELSE SameAsCornerInRow(img, yy) = {}

\* C5: on K >= 1 bands of height B >= 1 alternating background / foreground,
\* background first, card_row_starts has K div 2 entries and every reported
\* span, the unclosed one (start to H) included, has height B.
C5_Bands ==
    pc = "store" =>
        \A K \in 1..MaxBands, B \in 1..MaxBandHeight :
            IsBandImage(arr, K, B) =>
                /\ Len(card_row_starts) = K \div 2
                /\ Cardinality(ReportedSpans) = K \div 2
                /\ \A i \in LinesOf("row") : LastReport[i].hgt = B
                /\ \A sp \in ReportedSpans : sp[2] - sp[1] = B

\* four bands of height 2: one closed span and one unclosed span
C5_Witness ==
    /\ pc = "store"
    /\ IsBandImage(arr, 4, 2)
    /\ Cardinality(LinesOf("row")) = 1
    /\ Cardinality(LinesOf("unclosed")) = 1

UniformImage(img) ==
    /\ NonEmptyImage(img)
    /\ \A yy \in 0..(img.h - 1) : \A xx \in 0..(img.w - 1) :
          RGB(Px(img, yy, xx)) = Corner(img)

\* C6: on an image whose every pixel has the R, G, B of pixel (0,0), whatever
\* the alpha, every row and column whiteness is 1.0 and the result is (0, 0)
\* with card_row_starts, card_row_ends and col_starts empty.
C6_Uniform ==
    (pc = "store" /\ UniformImage(arr)) =>
        /\ Len(row_whiteness) = h
        /\ Len(col_whiteness) = w
        /\ \A i \in 1..Len(row_whiteness) :
              row_whiteness[i][1] = row_whiteness[i][2] /\ row_whiteness[i][2] > 0
        /\ \A i \in 1..Len(col_whiteness) :
              col_whiteness[i][1] = col_whiteness[i][2] /\ col_whiteness[i][2] > 0
        /\ ret = <<0, 0>>
        /\ card_row_starts = <<>>
        /\ card_row_ends = <<>>
        /\ col_starts = <<>>

\* a uniform image of two rows and two columns at least whose alpha varies
C6_Witness ==
    /\ pc = "store"
    /\ UniformImage(arr)
    /\ w = 3 /\ h = 2
    /\ Px(arr, 0, 0)[4] # Px(arr, 1, 1)[4]

EmptyImage(img) == img.kind # "missing" /\ (img.w = 0 \/ img.h = 0)

\* C7: when the image load of the i-th category fails, the run ends there:
\* find_card_rows was called for the first i categories only, totals holds the
\* categories before the i-th, each with rows * cols of its image, and nothing
\* can run any more.
C7_LoadFailureEndsRun ==
    (pc = "crashed" /\ error = "OSError") =>
        LET i == Len(calls)
        IN  /\ i >= 1
            /\ calls = SubSeq(Categories, 1, i)
            /\ name = Categories[i]
            /\ DOMAIN totals = {Categories[j] : j \in 1..(i - 1)}
            /\ \A j \in 1..(i - 1) :
                  LET img == files[PathOf[Categories[j]]]
                  IN  totals[Categories[j]] =
                          Cardinality(MaximalRuns(ForegroundRows(img)))
                        * Cardinality(MaximalRuns(ForegroundCols(img)))
            /\ ~ENABLED Next

\* the third load failed after two scans, one of them with a non-zero total
C7_Witness ==
    /\ pc = "crashed"
    /\ error = "OSError"
    /\ Len(calls) = 3
    /\ DOMAIN totals = {"action", "money"}
    /\ totals["action"] = 2
    /\ totals["money"] = 1

\* C8: on an image with H = 0 or W = 0 find_card_rows fails: it never gets
\* past the background sample, builds no whiteness profile and returns nothing.
C8_EmptyImageFails ==
    /\ (pc \notin {"for", "done"} /\ EmptyImage(arr)) =>
          /\ pc \in {"open", "sample", "crashed"}
          /\ (pc = "crashed") => error \in {"OSError", "IndexError"}
          /\ (pc # "crashed") => ENABLED Next
    /\ \A i \in 1..Len(frames) : ~EmptyImage(frames[i].image)

\* an image of two columns and no row was loaded and the sample raised
C8_Witness ==
    /\ pc = "crashed"
    /\ error = "IndexError"
    /\ EmptyImage(arr)
    /\ w = 2
    /\ h = 0

\* C9: two scans of the same image, whatever was scanned in between, end with
\* the same card_row_starts, card_row_ends, col_starts and returned pair, and
\* the same total.
C9_SameImageSameResult ==
    /\ \A i, j \in 1..Len(frames) :
          frames[i].image = frames[j].image =>
              /\ frames[i].card_row_starts = frames[j].card_row_starts
              /\ frames[i].card_row_ends = frames[j].card_row_ends
              /\ frames[i].col_starts = frames[j].col_starts
              /\ frames[i].ret = frames[j].ret
    /\ \A a, b \in DOMAIN totals :
          files[PathOf[a]] = files[PathOf[b]] => totals[a] = totals[b]

\* the same image scanned first and third, another one in between
C9_Witness ==
    /\ Len(frames) >= 3
    /\ frames[1].image = frames[3].image
    /\ frames[2].image # frames[1].image
    /\ frames[1].card_row_starts # <<>>
    /\ frames[2].card_row_starts # <<>>
    /\ {"action", "money", "property"} \subseteq DOMAIN totals

\* C10: after the row scan card_row_starts and card_row_ends are strictly
\* interleaved (start i < end i < start i+1), so every closed row reported
\* has height >= 1 and is the span of one run, and an unclosed last row has
\* height H - start >= 1.
C10_Interleaved ==
    pc \in {"colw", "colscan", "store"} =>
        /\ \A i \in 1..Len(card_row_starts) :
              /\ i <= Len(card_row_ends) => card_row_starts[i] < card_row_ends[i]
              /\ i < Len(card_row_starts) =>
                    /\ i <= Len(card_row_ends)
                    /\ card_row_ends[i] < card_row_starts[i + 1]
        /\ Len(card_row_ends) <= Len(card_row_starts)
        /\ pc = "store" =>
              /\ \A i \in LinesOf("row") :
                    /\ LastReport[i].hgt >= 1
                    /\ LastReport[i].hgt = LastReport[i].e - LastReport[i].s
                    /\ <<LastReport[i].s, LastReport[i].e - 1>>
                          \in MaximalRuns(ForegroundRows(arr))
              /\ \A i \in LinesOf("unclosed") :
                    /\ LastReport[i].e = h
                    /\ h - LastReport[i].s >= 1
                    /\ <<LastReport[i].s, h - 1>> \in MaximalRuns(ForegroundRows(arr))

\* two closed rows and an unclosed one were reported
C10_Witness ==
    /\ pc = "store"
    /\ Cardinality(LinesOf("row")) = 2
    /\ Cardinality(LinesOf("unclosed")) = 1

====
